---- MODULE Spec2Model ----
(***************************************************************************)
(* Model of the tag-replacer plugin (src/main.ts): the settings list and   *)
(* its persistence, the settings panel with its per-row callbacks, and the *)
(* CSS generator with its two awaited file operations.                     *)
(*                                                                         *)
(* Strings are TLA+ strings; the generator builds the stylesheet character *)
(* for character as the source's template literals do.  Array indices are  *)
(* zero-based as in the source (Get / Put translate to sequence positions).*)
(***************************************************************************)
EXTENDS Bags, FiniteSets, Integers, Sequences, TLC

VARIABLES
    tagIconPairs,   \* this.settings.tagIconPairs, the in-memory list
    defaultPairs,   \* the array DEFAULT_SETTINGS.tagIconPairs holds (line 14)
    aliased,        \* settings.tagIconPairs is that same array object
    persisted,      \* the host's stored settings blob (what loadData returns)
    saves,          \* bag of saveData calls in flight, each with its continuation
    rows,           \* the rows the panel shows: captured index and shown texts
    topButton,      \* the header "+" button is in the panel
    bottomButtons,  \* the footer "+" and "Generate CSS" buttons are in the panel
    pending,        \* bag of generateCss calls suspended at an adapter await
    file,           \* <configDir>/snippets/tags.css
    snippetsFolder, \* <configDir>/snippets exists
    console,        \* what generateCss logged (console.log / console.error)
    adapter,        \* how many mkdir and write calls the host resolved and rejected
    uncaught,       \* kinds of errors that escaped a callback
    triggered,      \* number of generateCss calls so far
    edits,          \* number of row and "+" callbacks that have run so far
    latest          \* result of the text generation of the most recent call

vars == <<tagIconPairs, defaultPairs, aliased, persisted, saves, rows,
          topButton, bottomButtons,
          pending, file, snippetsFolder, console, adapter, uncaught,
          triggered, edits, latest>>

(* Bounds of the model. *)
MaxActions == 3
MaxGenPairs == 2

----------------------------------------------------------------------------
(* JavaScript values and string primitives.                                *)

Pair(tag, icon) == [tag |-> tag, icon |-> icon]
Undefined == [undefined |-> TRUE]
Null == [null |-> TRUE]
Hole == [hole |-> TRUE]

IsPair(v) == v \notin {Undefined, Null, Hole}

CharAt(s, i) == SubSeq(s, i, i)

\* String.prototype.includes
Includes(s, t) == \E i \in 1..(Len(s) - Len(t) + 1) : SubSeq(s, i, i + Len(t) - 1) = t

\* String.prototype.slice(0, -2)
SliceOffTwo(s) == SubSeq(s, 1, Len(s) - 2)

RECURSIVE SplitFrom(_, _, _)
SplitFrom(s, start, i) ==
    IF i > Len(s) THEN << SubSeq(s, start, Len(s)) >>
    ELSE IF CharAt(s, i) = "/"
         THEN << SubSeq(s, start, i - 1) >> \o SplitFrom(s, i + 1, i + 1)
         ELSE SplitFrom(s, start, i + 1)

\* tag.split("/")
Split(s) == SplitFrom(s, 1, 1)

\* const [category, name] = pair.tag.split("/"): name is undefined when the
\* split has a single segment.
HasName(parts) == Len(parts) >= 2
Category(parts) == parts[1]
\* `${name}` in a template literal
NameText(parts) == IF HasName(parts) THEN parts[2] ELSE "undefined"
CleanTag(parts) == Category(parts) \o NameText(parts)

----------------------------------------------------------------------------
(* generateCss: the text generation, lines 44-117.                         *)

Threw == [threw |-> TRUE, css |-> ""]
Ok(css) == [threw |-> FALSE, css |-> css]

\* Lines 48-59, one iteration.
FirstPartPair(css, pair) ==
    IF ~IsPair(pair) THEN Threw
    ELSE LET parts == Split(pair.tag)
             cleanTag == CleanTag(parts)
             css1 == css \o ".tag[href=\"#" \o pair.tag \o "\"],\n"
             css2 == css1 \o ".cm-tag-" \o cleanTag \o ",\n"
         IN IF ~HasName(parts) THEN Threw
            ELSE IF Includes(parts[2], "_")
            THEN Ok(css2 \o ".cm-tag-" \o cleanTag \o " + span.cm-hashtag,\n"
                         \o ".cm-tag-" \o cleanTag \o " + span.cm-hashtag + .cm-hashtag,\n")
            ELSE Ok(css2)

\* Lines 68-79, one iteration.
SecondPartPair(css, pair) ==
    IF ~IsPair(pair) THEN Threw
    ELSE LET parts == Split(pair.tag)
             cleanTag == CleanTag(parts)
             css1 == css \o ".tag[href=\"#" \o pair.tag \o "\"]:after,\n"
             css2 == css1 \o ".cm-tag-" \o cleanTag \o ":after,\n"
         IN IF ~HasName(parts) THEN Threw
            ELSE IF Includes(parts[2], "_")
            THEN Ok(css2 \o ".cm-tag-" \o cleanTag \o " + span.cm-hashtag:after,\n"
                         \o ".cm-tag-" \o cleanTag \o " + span.cm-hashtag + .cm-hashtag:after,\n")
            ELSE Ok(css2)

\* Lines 87-98, one iteration.
ThirdPartPair(css, pair) ==
    IF ~IsPair(pair) THEN Threw
    ELSE LET parts == Split(pair.tag)
             cleanTag == CleanTag(parts)
             css1 == css \o ".cm-active .tag[href=\"#" \o pair.tag \o "\"],\n"
             css2 == css1 \o ".cm-active .cm-tag-" \o cleanTag \o ",\n"
         IN IF ~HasName(parts) THEN Threw
            ELSE IF Includes(parts[2], "_")
            THEN Ok(css2 \o ".cm-active .cm-tag-" \o cleanTag \o " + span.cm-hashtag,\n"
                         \o ".cm-active .cm-tag-" \o cleanTag \o " + span.cm-hashtag + .cm-hashtag,\n")
            ELSE Ok(css2)

\* Lines 106-117, one iteration.
FourthPartPair(css, pair) ==
    IF ~IsPair(pair) THEN Threw
    ELSE LET parts == Split(pair.tag)
             cleanTag == CleanTag(parts)
         IN Ok(css \o ".tag[href=\"#" \o pair.tag \o "\"]:after,\n"
                   \o ".cm-hashtag-begin.cm-tag-" \o cleanTag \o ":after {\n"
                   \o "  background-color: rgba(162, 93, 53, 0.1);\n"
                   \o "  border: solid 1px rgba(209, 209, 209, 0.1);\n"
                   \o "  border-radius: 3px;\n"
                   \o "  content: \"" \o pair.icon \o "\";\n"
                   \o "}\n\n")

PartPair(part, css, pair) ==
    CASE part = 1 -> FirstPartPair(css, pair)
      [] part = 2 -> SecondPartPair(css, pair)
      [] part = 3 -> ThirdPartPair(css, pair)
      [] part = 4 -> FourthPartPair(css, pair)

\* for (const pair of this.settings.tagIconPairs) { ... } from element i on
RECURSIVE ForOf(_, _, _, _)
ForOf(part, pairs, i, css) ==
    IF i > Len(pairs) THEN Ok(css)
    ELSE LET r == PartPair(part, css, pairs[i])
         IN IF r.threw THEN Threw ELSE ForOf(part, pairs, i + 1, r.css)

SuppressBody == " {\n  font-size: 0px;\n  padding: 0;\n}\n\n"
FontSizeBody == " {\n  font-size: var(--font-text-size);\n}\n\n"

CloseSelectorListNoTrim(css, body) == css \o body

\* css = css.slice(0, -2); css += ` {...}\n\n`  (lines 61-65, 81-84, 100-103)
CloseSelectorList(css, body) == SliceOffTwo(css) \o body

\* The text generateCss has built when it reaches line 119, or Threw.
GenerateCss(pairs) ==
    LET p1 == ForOf(1, pairs, 1, "")
    IN IF p1.threw THEN Threw
       ELSE LET p2 == ForOf(2, pairs, 1, CloseSelectorList(p1.css, SuppressBody))
       IN IF p2.threw THEN Threw
       ELSE LET p3 == ForOf(3, pairs, 1, CloseSelectorList(p2.css, FontSizeBody))
       IN IF p3.threw THEN Threw
       ELSE ForOf(4, pairs, 1, CloseSelectorList(p3.css, FontSizeBody))

----------------------------------------------------------------------------
(* JavaScript arrays (zero-based) and the settings blob.                   *)

\* array[i]: undefined outside the array and at a hole
Get(array, i) ==
    IF i >= 0 /\ i < Len(array) /\ array[i + 1] # Hole THEN array[i + 1] ELSE Undefined

\* array[i] = v: an index past the end lengthens the array, leaving holes
Put(array, i, v) ==
    IF i < Len(array) THEN [array EXCEPT ![i + 1] = v]
    ELSE array \o [k \in 1..(i - Len(array)) |-> Hole] \o << v >>

Push(array, v) == Append(array, v)

\* array.splice(index, 1)
Splice(array, index) ==
    IF index < Len(array)
    THEN SubSeq(array, 1, index) \o SubSeq(array, index + 2, Len(array))
    ELSE array

\* What saveData stores of the list: JSON has neither undefined nor holes.
JsonStringify(array) ==
    [k \in 1..Len(array) |-> IF IsPair(array[k]) THEN array[k] ELSE Null]

\* The module's defaults object, lines 13-15: its array can be changed in place.
DEFAULT_SETTINGS == [tagIconPairs |-> defaultPairs]

\* Object.assign({}, DEFAULT_SETTINGS, await this.loadData())   (lines 32-38):
\* a shallow copy, so with no stored data the settings hold the very array
\* of DEFAULT_SETTINGS.
LoadSettings(data) == IF data = Null THEN DEFAULT_SETTINGS ELSE data

\* The list of the settings and what may share its array.
shared == <<tagIconPairs, defaultPairs, aliased>>

\* push, splice and index assignment change the array in place (lines 160,
\* 176, 186, 201-203, 222-224, 235, 245): DEFAULT_SETTINGS sees the change
\* when it holds the same array.
InPlace(array) ==
    /\ tagIconPairs' = array
    /\ defaultPairs' = IF aliased THEN array ELSE defaultPairs
    /\ UNCHANGED aliased

\* this.saveData(this.settings): the call in flight, with what the caller
\* does once it resumes ("display" or nothing).
SaveSettings(array, then) == [data |-> [tagIconPairs |-> JsonStringify(array)], then |-> then]

----------------------------------------------------------------------------
(* display(): lines 146-262.                                               *)

\* tagIconPairs.forEach((pair, index) => ...): holes are skipped; reading
\* pair.tag of an undefined or null element throws and ends display().
RECURSIVE RenderRows(_, _)
RenderRows(array, i) ==
    IF i > Len(array) THEN [rows |-> << >>, threw |-> FALSE]
    ELSE IF array[i] = Hole THEN RenderRows(array, i + 1)
    ELSE IF ~IsPair(array[i]) THEN [rows |-> << >>, threw |-> TRUE]
    ELSE LET rest == RenderRows(array, i + 1)
         IN [rows |-> << [index |-> i - 1, tag |-> array[i].tag, icon |-> array[i].icon] >>
                      \o rest.rows,
             threw |-> rest.threw]

Display(array) ==
    LET r == RenderRows(array, 1)
    IN /\ rows' = r.rows
       /\ topButton' = TRUE
       /\ bottomButtons' = ~r.threw
       /\ uncaught' = IF r.threw THEN uncaught \cup {"display: TypeError"} ELSE uncaught

panel == <<rows, topButton, bottomButtons>>
generation == <<pending, file, snippetsFolder, console, adapter, triggered, latest>>

\* One more row or "+" callback runs.
UserActs == edits + triggered < MaxActions /\ edits' = edits + 1

\* Values a user types into a row's text fields.
TagInputs == {"a/b"}
IconInputs == {"X"}

\* The host opens the settings tab and calls display().
OpenSettingsTab ==
    /\ Display(tagIconPairs)
    /\ UNCHANGED <<shared, persisted, saves, generation, edits>>

AddRowRegenerating ==
    /\ UserActs
    /\ LET array == Push(tagIconPairs, Pair("", ""))
       IN /\ InPlace(array)
          /\ saves' = saves (+) SetToBag({SaveSettings(array, "none")})
          /\ Display(array)
          /\ file' = [exists |-> TRUE, content |-> GenerateCss(array).css]
    /\ UNCHANGED <<persisted, pending, snippetsFolder, console, adapter, triggered, latest>>

\* The "+" handlers, lines 159-166 and 244-251: push, saveSettings() without
\* await, display().
AddRow ==
    /\ UserActs
    /\ LET array == Push(tagIconPairs, Pair("", ""))
       IN /\ InPlace(array)
          /\ saves' = saves (+) SetToBag({SaveSettings(array, "none")})
          /\ Display(array)
    /\ UNCHANGED <<persisted, generation>>

AddRowTop == topButton /\ AddRow
AddRowBottom == bottomButtons /\ AddRow

\* Tag field onChange, lines 175-179.
EditTag(r, value) ==
    /\ UserActs
    /\ value # rows[r].tag
    /\ rows' = [rows EXCEPT ![r].tag = value]
    /\ LET index == rows[r].index
           pair == Get(tagIconPairs, index)
       IN IF ~IsPair(pair)
          THEN /\ uncaught' = uncaught \cup {"onChange: TypeError"}
               /\ UNCHANGED <<shared, saves>>
          ELSE /\ LET array == Put(tagIconPairs, index, [pair EXCEPT !.tag = value])
                  IN /\ InPlace(array)
                     /\ saves' = saves (+) SetToBag({SaveSettings(array, "none")})
               /\ UNCHANGED uncaught
    /\ UNCHANGED <<persisted, topButton, bottomButtons, generation>>

\* Icon field onChange, lines 185-189.
EditIcon(r, value) ==
    /\ UserActs
    /\ value # rows[r].icon
    /\ rows' = [rows EXCEPT ![r].icon = value]
    /\ LET index == rows[r].index
           pair == Get(tagIconPairs, index)
       IN IF ~IsPair(pair)
          THEN /\ uncaught' = uncaught \cup {"onChange: TypeError"}
               /\ UNCHANGED <<shared, saves>>
          ELSE /\ LET array == Put(tagIconPairs, index, [pair EXCEPT !.icon = value])
                  IN /\ InPlace(array)
                     /\ saves' = saves (+) SetToBag({SaveSettings(array, "none")})
               /\ UNCHANGED uncaught
    /\ UNCHANGED <<persisted, topButton, bottomButtons, generation>>

\* "Move up" onClick, lines 195-207, up to the await.
MoveUp(r) ==
    LET index == rows[r].index
    IN IF index > 0
       THEN LET temp == Get(tagIconPairs, index - 1)
                array == Put(Put(tagIconPairs, index - 1, Get(tagIconPairs, index)), index, temp)
            IN /\ UserActs
               /\ InPlace(array)
               /\ saves' = saves (+) SetToBag({SaveSettings(array, "display")})
               /\ UNCHANGED <<persisted, panel, uncaught, generation>>
       ELSE UNCHANGED vars

\* "Move down" onClick, lines 213-228, up to the await.
MoveDown(r) ==
    LET index == rows[r].index
    IN IF index < Len(tagIconPairs) - 1
       THEN LET temp == Get(tagIconPairs, index + 1)
                array == Put(Put(tagIconPairs, index + 1, Get(tagIconPairs, index)), index, temp)
            IN /\ UserActs
               /\ InPlace(array)
               /\ saves' = saves (+) SetToBag({SaveSettings(array, "display")})
               /\ UNCHANGED <<persisted, panel, uncaught, generation>>
       ELSE UNCHANGED vars

\* "Remove" onClick, lines 234-238, up to the await.
Remove(r) ==
    LET array == Splice(tagIconPairs, rows[r].index)
    IN /\ UserActs
       /\ InPlace(array)
       /\ saves' = saves (+) SetToBag({SaveSettings(array, "display")})
       /\ UNCHANGED <<persisted, panel, uncaught, generation>>

\* The host completes a saveData call; a move or remove handler resumes after
\* its await and calls display().  Calls in flight complete in any order.
SaveDone(s) ==
    /\ persisted' = s.data
    /\ saves' = saves (-) SetToBag({s})
    /\ IF s.then = "display"
       THEN Display(tagIconPairs)
       ELSE UNCHANGED <<panel, uncaught>>
    /\ UNCHANGED <<shared, generation, edits>>

----------------------------------------------------------------------------
(* generateCss, lines 44-135: the call up to its first await, and the      *)
(* resumptions after mkdir and write.                                      *)

LogWritten == "CSS has been written to tags.css in the snippets folder"
LogError == "Error writing CSS file:"

\* this.generateCss() from the command or the button: lines 45-125.
CallGenerateCss ==
    /\ edits + triggered < MaxActions
    /\ triggered' = triggered + 1
    /\ LET r == GenerateCss(tagIconPairs)
       IN /\ latest' = r
          /\ IF r.threw
             THEN /\ uncaught' = uncaught \cup {"generateCss: TypeError"}
                  /\ UNCHANGED pending
             ELSE /\ pending' = pending (+) SetToBag({[op |-> "mkdir", css |-> r.css]})
                  /\ UNCHANGED uncaught
    /\ UNCHANGED <<shared, persisted, saves, panel, file, snippetsFolder,
                   console, adapter, edits>>

\* The "generate-css" command, lines 25-29.
GenerateCommand == CallGenerateCss
\* The "Generate CSS" button, lines 254-261.
GenerateButton == bottomButtons /\ CallGenerateCss

MkdirFailedThenWrite(g) ==
    /\ g.op = "mkdir"
    /\ pending' = (pending (-) SetToBag({g})) (+) SetToBag({[op |-> "write", css |-> g.css]})
    /\ adapter' = [adapter EXCEPT !.mkdirFailed = @ + 1]
    /\ console' = Append(console, LogError)
    /\ UNCHANGED <<shared, persisted, saves, panel, file, snippetsFolder,
                   uncaught, triggered, edits, latest>>

\* mkdir resolves: line 125 returns and line 128 issues the write.
MkdirDone(g) ==
    /\ g.op = "mkdir"
    /\ snippetsFolder' = TRUE
    /\ pending' = (pending (-) SetToBag({g})) (+) SetToBag({[op |-> "write", css |-> g.css]})
    /\ adapter' = [adapter EXCEPT !.mkdirDone = @ + 1]
    /\ UNCHANGED <<shared, persisted, saves, panel, file, console,
                   uncaught, triggered, edits, latest>>

\* mkdir rejects: the catch at lines 132-134 logs and generateCss returns.
MkdirFailed(g) ==
    /\ g.op = "mkdir"
    /\ pending' = pending (-) SetToBag({g})
    /\ adapter' = [adapter EXCEPT !.mkdirFailed = @ + 1]
    /\ console' = Append(console, LogError)
    /\ UNCHANGED <<shared, persisted, saves, panel, file, snippetsFolder,
                   uncaught, triggered, edits, latest>>

\* write resolves: the file holds the text, lines 128-131 log success.
WriteDone(g) ==
    /\ g.op = "write"
    /\ file' = [exists |-> TRUE, content |-> g.css]
    /\ pending' = pending (-) SetToBag({g})
    /\ adapter' = [adapter EXCEPT !.writeDone = @ + 1]
    /\ console' = Append(console, LogWritten)
    /\ UNCHANGED <<shared, persisted, saves, panel, snippetsFolder,
                   uncaught, triggered, edits, latest>>

\* write rejects: the catch at lines 132-134 logs and generateCss returns.
WriteFailed(g) ==
    /\ g.op = "write"
    /\ pending' = pending (-) SetToBag({g})
    /\ adapter' = [adapter EXCEPT !.writeFailed = @ + 1]
    /\ console' = Append(console, LogError)
    /\ UNCHANGED <<shared, persisted, saves, panel, file, snippetsFolder,
                   uncaught, triggered, edits, latest>>

----------------------------------------------------------------------------
(* The plugin after onload (lines 20-30), driven by the host.              *)

InitialData == {Null, [tagIconPairs |-> << Pair("a/b", "X"), Pair("c/d", "Y") >>]}

InitWith(data) ==
    /\ persisted = data
    /\ defaultPairs = << >>
    /\ aliased = (data = Null)
    /\ tagIconPairs = LoadSettings(data).tagIconPairs
    /\ saves = EmptyBag
    /\ rows = << >>
    /\ topButton = FALSE
    /\ bottomButtons = FALSE
    /\ pending = EmptyBag
    /\ file = [exists |-> FALSE, content |-> ""]
    /\ snippetsFolder = FALSE
    /\ console = << >>
    /\ adapter = [mkdirDone |-> 0, mkdirFailed |-> 0, writeDone |-> 0, writeFailed |-> 0]
    /\ uncaught = {}
    /\ triggered = 0
    /\ edits = 0
    /\ latest = Ok("")

Init == \E data \in InitialData : InitWith(data)

Next ==
    \/ OpenSettingsTab
    \/ AddRowTop
    \/ AddRowBottom
    \/ \E r \in 1..Len(rows), value \in TagInputs : EditTag(r, value)
    \/ \E r \in 1..Len(rows), value \in IconInputs : EditIcon(r, value)
    \/ \E r \in 1..Len(rows) : MoveUp(r)
    \/ \E r \in 1..Len(rows) : MoveDown(r)
    \/ \E r \in 1..Len(rows) : Remove(r)
    \/ \E s \in BagToSet(saves) : SaveDone(s)
    \/ GenerateCommand
    \/ GenerateButton
    \/ \E g \in BagToSet(pending) : MkdirDone(g)
    \/ \E g \in BagToSet(pending) : MkdirFailed(g)
    \/ \E g \in BagToSet(pending) : WriteDone(g)
    \/ \E g \in BagToSet(pending) : WriteFailed(g)

Spec == Init /\ [][Next]_vars

----------------------------------------------------------------------------
(* The generator alone: the settings hold any list of up to MaxGenPairs    *)
(* pairs and the command runs once.                                        *)

GenPairs ==
    { Pair("a/b", "X"), Pair("c/d", "Y"), Pair("status/in_progress", "R"),
      Pair("a_b/c", "X"), Pair("a/b/c_d", "Y"), Pair("", ""), Pair("x_y", "X") }

GenLists == UNION { [1..n -> GenPairs] : n \in 0..MaxGenPairs }

InitGen == \E array \in GenLists : InitWith([tagIconPairs |-> array])

NextGen ==
    \/ triggered = 0 /\ GenerateCommand
    \/ \E g \in BagToSet(pending) : MkdirDone(g)
    \/ \E g \in BagToSet(pending) : MkdirFailed(g)
    \/ \E g \in BagToSet(pending) : WriteDone(g)
    \/ \E g \in BagToSet(pending) : WriteFailed(g)

SpecGen == InitGen /\ [][NextGen]_vars

----------------------------------------------------------------------------
(* Reading a stylesheet back: helpers of the properties below.  They do    *)
(* not use Split, CleanTag or the part operators above.                    *)

\* Position of the first occurrence of t in s at or after from, 0 if none.
Find(s, t, from) ==
    IF \E i \in from..(Len(s) - Len(t) + 1) : SubSeq(s, i, i + Len(t) - 1) = t
    THEN CHOOSE i \in from..(Len(s) - Len(t) + 1) :
            /\ SubSeq(s, i, i + Len(t) - 1) = t
            /\ \A j \in from..(i - 1) : SubSeq(s, j, j + Len(t) - 1) # t
    ELSE 0

RECURSIVE Lines(_, _)
\* The pieces of s between occurrences of sep.
Lines(s, sep) ==
    IF Find(s, sep, 1) = 0 THEN << s >>
    ELSE \* bind the position once
         CHOOSE ls \in { << SubSeq(s, 1, p - 1) >> \o Lines(SubSeq(s, p + Len(sep), Len(s)), sep)
                            : p \in {Find(s, sep, 1)} } : TRUE

RECURSIVE Join(_, _)
Join(strs, sep) ==
    IF Len(strs) = 0 THEN ""
    ELSE IF Len(strs) = 1 THEN strs[1]
    ELSE strs[1] \o sep \o Join(Tail(strs), sep)

RECURSIVE Flatten(_)
Flatten(seqs) == IF Len(seqs) = 0 THEN << >> ELSE seqs[1] \o Flatten(Tail(seqs))

RECURSIVE Sum(_)
Sum(ns) == IF Len(ns) = 0 THEN 0 ELSE ns[1] + Sum(Tail(ns))

SwapAt(seq, i, j) == [seq EXCEPT ![i] = seq[j], ![j] = seq[i]]

HasSlash(tag) == Find(tag, "/", 1) > 0
\* The text before the first "/".
CategorySegment(tag) == SubSeq(tag, 1, Find(tag, "/", 1) - 1)
\* The text between the first "/" and the second (or the end).
NameSegment(tag) ==
    LET rest == SubSeq(tag, Find(tag, "/", 1) + 1, Len(tag))
        q == Find(rest, "/", 1)
    IN IF q = 0 THEN rest ELSE SubSeq(rest, 1, q - 1)

TagClass(tag) == ".cm-tag-" \o CategorySegment(tag) \o NameSegment(tag)
Continuations(tag) ==
    << TagClass(tag) \o " + span.cm-hashtag",
       TagClass(tag) \o " + span.cm-hashtag + .cm-hashtag" >>

\* The selectors one pair contributes to a selector-list block.
SelectorGroup(pair, prefix, suffix) ==
    LET base == << ".tag[href=\"#" \o pair.tag \o "\"]", TagClass(pair.tag) >>
        all == IF Find(NameSegment(pair.tag), "_", 1) > 0
               THEN base \o Continuations(pair.tag) ELSE base
    IN [k \in 1..Len(all) |-> prefix \o all[k] \o suffix]

IconRule(pair) ==
    ".tag[href=\"#" \o pair.tag \o "\"]:after,\n.cm-hashtag-begin"
    \o TagClass(pair.tag) \o ":after {\n"
    \o "  background-color: rgba(162, 93, 53, 0.1);\n"
    \o "  border: solid 1px rgba(209, 209, 209, 0.1);\n"
    \o "  border-radius: 3px;\n"
    \o "  content: \"" \o pair.icon \o "\";\n}\n\n"

\* Per pair, in input order: its selector group in blocks 1-3 and its rule.
Groups(pairs) ==
    [ suppress |-> [k \in 1..Len(pairs) |-> SelectorGroup(pairs[k], "", "")],
      after    |-> [k \in 1..Len(pairs) |-> SelectorGroup(pairs[k], "", ":after")],
      active   |-> [k \in 1..Len(pairs) |-> SelectorGroup(pairs[k], ".cm-active ", "")],
      icon     |-> [k \in 1..Len(pairs) |-> IconRule(pairs[k])] ]

SwapGroups(g, i, j) ==
    [ suppress |-> SwapAt(g.suppress, i, j), after |-> SwapAt(g.after, i, j),
      active |-> SwapAt(g.active, i, j), icon |-> SwapAt(g.icon, i, j) ]

\* The stylesheet made of the groups: selector lists joined by ",\n", each
\* followed by its body, then the rules.
Stylesheet(g) ==
    Join(Flatten(g.suppress), ",\n") \o " {\n  font-size: 0px;\n  padding: 0;\n}\n\n"
    \o Join(Flatten(g.after), ",\n") \o " {\n  font-size: var(--font-text-size);\n}\n\n"
    \o Join(Flatten(g.active), ",\n") \o " {\n  font-size: var(--font-text-size);\n}\n\n"
    \o Join(g.icon, "")

\* The selector lists of blocks 1-3 of a stylesheet, each as its selectors.
SelectorLists(css) ==
    LET b1 == " {\n  font-size: 0px;\n  padding: 0;\n}\n\n"
        b2 == " {\n  font-size: var(--font-text-size);\n}\n\n"
        p1 == Find(css, b1, 1)
        s2 == p1 + Len(b1)
        p2 == Find(css, b2, s2)
        s3 == p2 + Len(b2)
        p3 == Find(css, b2, s3)
    IN IF p1 = 0 \/ p2 = 0 \/ p3 = 0 THEN << >>
       ELSE << Lines(SubSeq(css, 1, p1 - 1), ",\n"),
               Lines(SubSeq(css, s2, p2 - 1), ",\n"),
               Lines(SubSeq(css, s3, p3 - 1), ",\n") >>

Range(seq) == { seq[k] : k \in 1..Len(seq) }

\* Every " {" that opens a rule body follows a selector.
EveryRuleHasSelector(css) ==
    \A i \in 1..(Len(css) - 1) :
        SubSeq(css, i, i + 1) = " {" => i > 1 /\ CharAt(css, i - 1) \notin {"}", "\n"}

AllTagsHaveSlash(pairs) == \A k \in 1..Len(pairs) : HasSlash(pairs[k].tag)

\* Number of suspended generateCss calls waiting for the adapter operation op.
PendingOps(op) ==
    BagCardinality([g \in { h \in BagToSet(pending) : h.op = op } |-> pending[g]])

----------------------------------------------------------------------------
(* Properties of generateCss: C3 is checked under Spec, the others under   *)
(* SpecGen.                                                                *)

\* C1: generateCss on an empty tagIconPairs list produces a stylesheet with
\* no malformed rule: every rule block has a non-empty selector list, or the
\* output is the empty string.
C1_EmptyListWellFormed ==
    (triggered > 0 /\ tagIconPairs = << >>) =>
        /\ ~latest.threw
        /\ latest.css = "" \/ EveryRuleHasSelector(latest.css)

\* C2: generateCss raises no error for any tag value: also for a pair whose
\* tag has no "/" the text generation completes and the call goes on to the
\* directory creation.
C2_NoErrorForAnyTag ==
    triggered > 0 =>
        /\ ~latest.threw
        /\ "generateCss: TypeError" \notin uncaught
        /\ PendingOps("mkdir") + PendingOps("write") + Len(console) = triggered

\* C3: a filesystem failure in generateCss is non-fatal.  A rejected mkdir or
\* write is caught and logged, the call ends there (no write after a rejected
\* mkdir, no retry), nothing propagates, and the settings list and the file
\* are as before; writes are issued only after a resolved mkdir.
C3_FilesystemFailureNonFatal ==
    /\ [](/\ PendingOps("write") + adapter.writeDone + adapter.writeFailed = adapter.mkdirDone
          /\ Len(SelectSeq(console, LAMBDA m : m = LogError))
                = adapter.mkdirFailed + adapter.writeFailed
          /\ "generateCss: I/O error" \notin uncaught)
    /\ [][ (adapter'.mkdirFailed + adapter'.writeFailed
                > adapter.mkdirFailed + adapter.writeFailed) =>
             /\ tagIconPairs' = tagIconPairs
             /\ file' = file
             /\ uncaught' = uncaught
             /\ console' = Append(console, LogError)
             /\ BagCardinality(pending') = BagCardinality(pending) - 1
             /\ adapter'.mkdirFailed > adapter.mkdirFailed
                    => PendingOps("write")' = PendingOps("write")
             /\ triggered' = triggered ]_vars

\* Both kinds of failure have happened and both calls have returned.
C3_Witness ==
    /\ adapter.mkdirFailed = 1
    /\ adapter.writeFailed = 1
    /\ console = << LogError, LogError >>
    /\ pending = EmptyBag
    /\ tagIconPairs # << >>

\* C6: for a non-empty list whose tags have a "/", the selector list of each
\* of blocks 1-3 is the pairs' selector groups in input order joined by ",\n"
\* with no trailing ",\n" before the body, and block 4 has one rule per pair
\* in input order; exchanging two pairs exchanges their groups and rules and
\* changes nothing else.  For [{a/b, X}, {c/d, Y}] the suppress selector list
\* is the four selectors of the scenario.
C6_SelectorListsInInputOrder ==
    (triggered > 0 /\ tagIconPairs # << >> /\ AllTagsHaveSlash(tagIconPairs)) =>
        /\ ~latest.threw
        /\ latest.css = Stylesheet(Groups(tagIconPairs))
        /\ \A i, j \in 1..Len(tagIconPairs) :
               GenerateCss(SwapAt(tagIconPairs, i, j)).css
                   = Stylesheet(SwapGroups(Groups(tagIconPairs), i, j))
        /\ tagIconPairs = << Pair("a/b", "X"), Pair("c/d", "Y") >> =>
               SelectorLists(latest.css)[1]
                   = << ".tag[href=\"#a/b\"]", ".cm-tag-ab", ".tag[href=\"#c/d\"]", ".cm-tag-cd" >>

\* The scenario's list has been generated and written.
C6_Witness ==
    /\ tagIconPairs = << Pair("a/b", "X"), Pair("c/d", "Y") >>
    /\ triggered > 0
    /\ file = [exists |-> TRUE, content |-> latest.css]
    /\ Find(latest.css, ".tag[href=\"#a/b\"],\n.cm-tag-ab,\n.tag[href=\"#c/d\"],\n.cm-tag-cd {", 1) = 1

\* C7: for every pair of the generated list, the two hashtag-continuation
\* selectors of the pair are in each of the three selector-list blocks
\* exactly when the pair's name segment has an underscore; a pair with an
\* underscore only in its category, or with none, contributes two selectors
\* per block.
C7_ContinuationsIffNameUnderscore ==
    triggered > 0 =>
        \A k \in 1..Len(tagIconPairs) :
            LET lists == SelectorLists(latest.css)
                affix == << << "", "" >>, << "", ":after" >>, << ".cm-active ", "" >> >>
                underscored(m) == Find(NameSegment(tagIconPairs[m].tag), "_", 1) > 0
                c == Continuations(tagIconPairs[k].tag)
                same == { m \in 1..Len(tagIconPairs) :
                            TagClass(tagIconPairs[m].tag) = TagClass(tagIconPairs[k].tag) }
            IN /\ ~latest.threw
               /\ Len(lists) = 3
               /\ \A b \in 1..3 :
                    LET sels == { affix[b][1] \o c[n] \o affix[b][2] : n \in 1..2 }
                    IN /\ Len(lists[b]) = Sum([m \in 1..Len(tagIconPairs) |->
                                                  IF underscored(m) THEN 4 ELSE 2])
                       /\ underscored(k) => sels \subseteq Range(lists[b])
                       /\ (\A m \in same : ~underscored(m)) => sels \cap Range(lists[b]) = {}

----------------------------------------------------------------------------
(* Properties of the panel, the persistence and the file, checked under    *)
(* Spec.                                                                   *)

Memory == <<tagIconPairs, persisted, saves, rows, topButton, bottomButtons, edits>>

\* The list a newly started plugin reads back from the stored settings.
Stored == IF persisted = Null THEN << >> ELSE persisted.tagIconPairs

\* C4: after any sequence of list mutations, whenever no save is in flight
\* the persisted tagIconPairs equal the in-memory tagIconPairs.
C4_PersistedEqualsMemory ==
    saves = EmptyBag => Stored = tagIconPairs

\* C5: only a generateCss call started by the command or the button writes
\* snippets/tags.css.  A step that appends, removes, moves or edits a row,
\* redraws the panel or completes a save leaves the file as it is; the file
\* changes only when the write of a suspended generateCss call resolves, and
\* it then holds that call's text.
C5_OnlyGenerateWritesFile ==
    /\ [](BagCardinality(pending) <= triggered)
    /\ [][ /\ Memory' # Memory => file' = file
           /\ file' # file =>
                \E g \in BagToSet(pending) :
                    /\ g.op = "write"
                    /\ file' = [exists |-> TRUE, content |-> g.css]
                    /\ pending' = pending (-) SetToBag({g})
                    /\ adapter'.writeDone = adapter.writeDone + 1 ]_vars

\* The file was written, the list was edited afterwards, and the file no
\* longer is the stylesheet of the list.
C5_Witness ==
    /\ file.exists
    /\ pending = EmptyBag
    /\ edits > 0
    /\ saves = EmptyBag
    /\ ~GenerateCss(tagIconPairs).threw
    /\ file.content # GenerateCss(tagIconPairs).css

SameElements(a, b) ==
    \A v \in Range(a) \cup Range(b) :
        Cardinality({ k \in 1..Len(a) : a[k] = v }) = Cardinality({ k \in 1..Len(b) : b[k] = v })

\* C8: move-up and move-down are adjacent swaps that keep the list's length
\* and its multiset of pairs: move-up on row i > 0 exchanges entries i-1 and
\* i, move-down on row i < length-1 exchanges entries i and i+1, the other
\* entries stay; on the first (last) row the list stays and no save is issued.
C8_MovesAreAdjacentSwaps ==
    [][ \A r \in 1..Len(rows) :
          LET i == rows[r].index
          IN /\ MoveUp(r) =>
                  /\ Len(tagIconPairs') = Len(tagIconPairs)
                  /\ SameElements(tagIconPairs', tagIconPairs)
                  /\ IF i > 0
                     THEN tagIconPairs' = SwapAt(tagIconPairs, i, i + 1)
                     ELSE tagIconPairs' = tagIconPairs /\ saves' = saves
             /\ MoveDown(r) =>
                  /\ Len(tagIconPairs') = Len(tagIconPairs)
                  /\ SameElements(tagIconPairs', tagIconPairs)
                  /\ IF i < Len(tagIconPairs) - 1
                     THEN tagIconPairs' = SwapAt(tagIconPairs, i + 1, i + 2)
                     ELSE tagIconPairs' = tagIconPairs /\ saves' = saves ]_vars

\* C9: whenever a row's control can fire, the index its callbacks captured is
\* an index of the current list and designates the pair the row shows; no row
\* callback indexes past the end of the list.
C9_RowIndexDesignatesItsPair ==
    /\ \A r \in 1..Len(rows) :
          /\ rows[r].index < Len(tagIconPairs)
          /\ Get(tagIconPairs, rows[r].index) = Pair(rows[r].tag, rows[r].icon)
    /\ "onChange: TypeError" \notin uncaught

\* C10: once every triggered generation has finished without a failure, the
\* file holds the stylesheet of the list as it stood at the most recent
\* trigger.
C10_LatestTriggerWins ==
    (/\ triggered > 0
     /\ pending = EmptyBag
     /\ Len(console) = triggered
     /\ \A k \in 1..Len(console) : console[k] = LogWritten)
        => file = [exists |-> TRUE, content |-> latest.css]

====
